---- MODULE Spec2Model ----
(***************************************************************************)
(* GP_emu_UQSA, gp_emu/emulatorfunctions.py: setup() followed by train().  *)
(*                                                                         *)
(* The control flow of setup() and train() is translated statement by      *)
(* statement from emulatorfunctions.py; every action L<n> is the statement *)
(* at source line <n>.  The classes the statements call (TV_config,        *)
(* All_Data, Data, Posterior, Optimize of gp_emu._emulatorclasses and      *)
(* gp_emu._emulatoroptimise) are modelled from the design document: the    *)
(* partition plan, the fold of a validation block into training, and the   *)
(* "remake" stamps of the cached regression artifacts.                     *)
(*                                                                         *)
(* Every variable is a function of the run: run 1 is the program, run 2 is *)
(* a second execution on the same inputs that is only started by SpecPair  *)
(* (it is switched off in Spec), so that two runs which differ in nothing  *)
(* but the diagnostic values they observe can be compared.                 *)
(***************************************************************************)
EXTENDS Integers, Sequences, FiniteSets, TLC

\* Largest number of sets k the dataset is split into.
MaxK == 4
\* Number of data points in each of the k sets.
PtsPerSet == 2

Runs == {1, 2}
Other(r) == 3 - r

\* Block id of "no validation block".
NoBlk == -1

VARIABLES
    pc,          \* position of each run in setup()/train()
    turn,        \* the run that executes the next statement
    config,      \* config.tv_config: (k, c, noV)
    auto,        \* train()'s argument auto
    operator,    \* the operator's console answers when auto is False
    loud,        \* whether a request for a missing validation block raises
    tv_conf,     \* E.tv_conf, the partition plan
    folded,      \* ids of the validation blocks folded into training
    par,         \* E.par, the version of the shared hyperparameter vector
    training,    \* E.training
    validation,  \* E.validation
    post,        \* E.post
    misuse,      \* the current validation block was requested when none remains
    rounds,      \* validation rounds started by the while loop
    steps,       \* the calls made so far, in order
    refs         \* the Hyperparams and kernel instances, and who holds which

vars == <<pc, turn, config, auto, operator, loud, tv_conf, folded, par, training,
          validation, post, misuse, rounds, steps, refs>>

----------------------------------------------------------------------------
(* The dataset and its split into k sets.                                  *)

\* The points of set b: indices b*PtsPerSet+1 .. (b+1)*PtsPerSet, in order.
Block(b) == [i \in 1..PtsPerSet |-> b * PtsPerSet + i]

Range(s) == {s[i] : i \in DOMAIN s}

AllPoints(k) == 1..(k * PtsPerSet)

\* The sets c .. c+noV-1 are the validation sets.
VBlocks(tv) == {tv.c + j : j \in 0..(tv.noV - 1)}

RECURSIVE ConcatBlocks(_, _, _)
ConcatBlocks(b, k, skip) ==
    IF b >= k THEN <<>>
    ELSE (IF b \in skip THEN <<>> ELSE Block(b)) \o ConcatBlocks(b + 1, k, skip)

\* all_data.choose_T(): every set that is not a validation set.
choose_T(tv) == ConcatBlocks(0, tv.k, VBlocks(tv))

\* Whether the partition plan has a current validation block.
HasCurrentV(tv) == tv.cur < tv.noV

\* all_data.choose_V() / choose_new_V(): the current validation block, or an
\* empty block when none remains.
choose_V(tv) ==
    IF HasCurrentV(tv)
    THEN [blk |-> tv.c + tv.cur, inputs |-> Block(tv.c + tv.cur)]
    ELSE [blk |-> NoBlk, inputs |-> <<>>]

----------------------------------------------------------------------------
(* TV_config, the partition plan.                                          *)

TV_config(k, c, noV) ==
    [k |-> k, c |-> c, noV |-> noV, auto |-> TRUE, retrain |-> TRUE, cur |-> 0]

auto_train(tv, a) == [tv EXCEPT !.auto = a]

\* "while there are validation sets remaining"
doing_training(tv) == tv.retrain /\ tv.cur < tv.noV

\* "if more validation data left": another block follows the current one,
\* and promotion is automatic or the operator asks for it.
MoreVLeft(tv) == tv.cur + 1 < tv.noV

check_still_training(tv, op) ==
    MoreVLeft(tv) /\ (tv.auto \/ tv.cur < op.retrain)

next_Vset(tv) == [tv EXCEPT !.cur = @ + 1]

\* Automatic mode always does the final build; otherwise the operator decides.
do_final_build(tv, op) == tv.auto \/ op.final

----------------------------------------------------------------------------
(* Regression states and the posterior: what their caches were made from.  *)

Stamp(p, d) == [par |-> p, inputs |-> d.inputs]

\* Data(x, y, basis, par, beliefs, K): the constructor builds the artifacts.
Data(blk, inputs, p) ==
    [blk |-> blk, inputs |-> inputs, made |-> [par |-> p, inputs |-> inputs]]

\* Data.remake(): rebuild from the current inputs and hyperparameters.
remake(d, p) == [d EXCEPT !.made = Stamp(p, d)]

NoDiag == [par |-> -1, inputs |-> <<>>]

\* Posterior(validation, training, ...) and Posterior.remake(): built from the
\* artifacts the two regression states hold at that moment.
Posterior(V, T) ==
    [made |-> [T |-> T.made, V |-> V.made],
     md |-> "none", ise |-> {}, mdOf |-> NoDiag, iseOf |-> NoDiag]

post_remake(P, V, T) == [P EXCEPT !.made = [T |-> T.made, V |-> V.made]]

FreshT(r) == training[r].made = Stamp(par[r], training[r])
FreshV(r) == validation[r].made = Stamp(par[r], validation[r])
FreshP(r) ==
    post[r].made = [T |-> Stamp(par[r], training[r]),
                    V |-> Stamp(par[r], validation[r])]

\* Outcomes of mahalanobis_distance(): within or outside the expected range.
MDOutcomes == {"within", "outside"}

----------------------------------------------------------------------------
(* Inputs and the state setup() starts from (after lines 27-43).           *)

Configs ==
    {cf \in [k : 1..MaxK, c : 0..MaxK, noV : 0..MaxK] :
        /\ cf.noV < cf.k
        /\ cf.c + cf.noV <= cf.k
        /\ (cf.noV = 0 => cf.c = 0)}

\* The operator's answers matter only when auto is False: the number of
\* promotions the operator asks for, and whether a final build is asked for.
Operators(cf, a) ==
    IF a THEN {[retrain |-> 0, final |-> TRUE]}
    ELSE [retrain : 0..(IF cf.noV = 0 THEN 0 ELSE cf.noV - 1), final : BOOLEAN]

\* The instances an object was constructed with; 0 is "not constructed".
NoRefs == [par |-> 0, K |-> 0]

\* After lines 31 and 41: one Hyperparams instance (par) and one kernel (K)
\* exist, and no Data, Posterior or Optimize object does.
FirstRefs ==
    [hypers |-> 1, kernels |-> 1, par |-> 1, K |-> 1,
     training |-> NoRefs, validation |-> NoRefs, post |-> NoRefs,
     opt_T |-> NoRefs, predict |-> NoRefs, plot_post |-> NoRefs]

EmptyData == [blk |-> NoBlk, inputs |-> <<>>, made |-> NoDiag]

InitWith(start2) ==
    \E cf \in Configs, a \in BOOLEAN :
      \E op \in Operators(cf, a), ld \in (IF cf.noV = 0 THEN BOOLEAN ELSE {TRUE}) :
        /\ pc = [r \in Runs |-> IF r = 1 \/ start2 THEN "L45" ELSE "off"]
        /\ turn = 1
        /\ config = [r \in Runs |-> cf]
        /\ auto = [r \in Runs |-> a]
        /\ operator = [r \in Runs |-> op]
        /\ loud = [r \in Runs |-> ld]
        /\ tv_conf = [r \in Runs |-> TV_config(cf.k, cf.c, cf.noV)]
        /\ folded = [r \in Runs |-> {}]
        /\ par = [r \in Runs |-> 0]
        /\ training = [r \in Runs |-> EmptyData]
        /\ validation = [r \in Runs |-> EmptyData]
        /\ post = [r \in Runs |-> Posterior(EmptyData, EmptyData)]
        /\ misuse = [r \in Runs |-> FALSE]
        /\ rounds = [r \in Runs |-> 0]
        /\ steps = [r \in Runs |-> <<>>]
        /\ refs = [r \in Runs |-> FirstRefs]

Init == InitWith(FALSE)
InitPair == InitWith(TRUE)

----------------------------------------------------------------------------
(* Control: a run executes one statement when it is its turn.              *)

Halted(l) == l \in {"off", "done", "raised", "plotted"}

At(r, l) == turn = r /\ pc[r] = l

Go(r, l, call) ==
    /\ pc' = [pc EXCEPT ![r] = l]
    /\ steps' = [steps EXCEPT ![r] = IF call = "" THEN @ ELSE Append(@, call)]
    /\ turn' = IF Halted(pc[Other(r)]) THEN r ELSE Other(r)

inputsVars == <<config, auto, operator, loud>>

----------------------------------------------------------------------------
(* setup(), lines 45-54.                                                   *)

\* (x_T, y_T) = all_data.choose_T()
L45(r) ==
    /\ At(r, "L45")
    /\ training' = [training EXCEPT ![r] = [@ EXCEPT !.inputs = choose_T(tv_conf[r])]]
    /\ Go(r, "L46", "choose_T")
    /\ UNCHANGED <<inputsVars, refs, tv_conf, folded, par, validation, post, misuse, rounds>>

\* (x_V, y_V) = all_data.choose_V(), called whatever noV is.
L46(r) ==
    /\ At(r, "L46")
    /\ HasCurrentV(tv_conf[r])
    /\ validation' = [validation EXCEPT ![r] =
                        [@ EXCEPT !.blk = choose_V(tv_conf[r]).blk,
                                  !.inputs = choose_V(tv_conf[r]).inputs]]
    /\ Go(r, "L47", "choose_V")
    /\ UNCHANGED <<inputsVars, refs, tv_conf, folded, par, training, post, misuse, rounds>>

\* choose_V() with no validation block: the request is a misuse of the
\* partition; the build either fails loudly or hands back an empty block.
L46_misuse(r) ==
    /\ At(r, "L46")
    /\ ~HasCurrentV(tv_conf[r])
    /\ misuse' = [misuse EXCEPT ![r] = TRUE]
    /\ IF loud[r]
       THEN /\ Go(r, "raised", "choose_V")
            /\ UNCHANGED validation
       ELSE /\ validation' = [validation EXCEPT ![r] =
                        [@ EXCEPT !.blk = choose_V(tv_conf[r]).blk,
                                  !.inputs = choose_V(tv_conf[r]).inputs]]
            /\ Go(r, "L47", "choose_V")
    /\ UNCHANGED <<inputsVars, refs, tv_conf, folded, par, training, post, rounds>>

\* training = Data(x_T, y_T, basis, par, beliefs, K)
L47(r) ==
    /\ At(r, "L47")
    /\ training' = [training EXCEPT ![r] = Data(NoBlk, @.inputs, par[r])]
    /\ refs' = [refs EXCEPT ![r] = [@ EXCEPT !.training = [par |-> refs[r].par, K |-> refs[r].K]]]
    /\ Go(r, "L48", "")
    /\ UNCHANGED <<inputsVars, tv_conf, folded, par, validation, post, misuse, rounds>>

\* validation = Data(x_V, y_V, basis, par, beliefs, K)
L48(r) ==
    /\ At(r, "L48")
    /\ validation' = [validation EXCEPT ![r] = Data(@.blk, @.inputs, par[r])]
    /\ refs' = [refs EXCEPT ![r] = [@ EXCEPT !.validation = [par |-> refs[r].par, K |-> refs[r].K]]]
    /\ Go(r, "L49", "")
    /\ UNCHANGED <<inputsVars, tv_conf, folded, par, training, post, misuse, rounds>>

\* post = Posterior(validation, training, par, beliefs, K)
\* opt_T = Optimize(training, basis, par, beliefs, config): par is passed, the
\* kernel is the one training holds.
\* return Emulator(..., par, ..., training, validation, post, opt_T, K)
L49(r) ==
    /\ At(r, "L49")
    /\ post' = [post EXCEPT ![r] = Posterior(validation[r], training[r])]
    /\ refs' = [refs EXCEPT ![r] =
                  [@ EXCEPT !.post = [par |-> refs[r].par, K |-> refs[r].K],
                            !.opt_T = [par |-> refs[r].par, K |-> refs[r].training.K]]]
    /\ Go(r, "L72", "")
    /\ UNCHANGED <<inputsVars, tv_conf, folded, par, training, validation, misuse, rounds>>

----------------------------------------------------------------------------
(* train(), lines 72-119.                                                  *)

\* E.tv_conf.auto_train(auto)
L72(r) ==
    /\ At(r, "L72")
    /\ tv_conf' = [tv_conf EXCEPT ![r] = auto_train(@, auto[r])]
    /\ Go(r, "L75", "auto_train")
    /\ UNCHANGED <<inputsVars, refs, folded, par, training, validation, post, misuse, rounds>>

\* while E.tv_conf.doing_training():
L75(r) ==
    /\ At(r, "L75")
    /\ IF doing_training(tv_conf[r])
       THEN /\ rounds' = [rounds EXCEPT ![r] = @ + 1]
            /\ Go(r, "L77", "")
       ELSE /\ UNCHANGED rounds
            /\ Go(r, "L103", "")
    /\ UNCHANGED <<inputsVars, refs, tv_conf, folded, par, training, validation, post, misuse>>

\* E.opt_T.llhoptimize_full(E.config, message): the shared hyperparameter
\* vector is updated in place.
llhoptimize_full(r, from, to) ==
    /\ At(r, from)
    /\ par' = [par EXCEPT ![r] = @ + 1]
    /\ Go(r, to, "llhoptimize_full")
    /\ UNCHANGED <<inputsVars, refs, tv_conf, folded, training, validation, post, misuse, rounds>>

training_remake(r, from, to) ==
    /\ At(r, from)
    /\ training' = [training EXCEPT ![r] = remake(@, par[r])]
    /\ Go(r, to, "training.remake")
    /\ UNCHANGED <<inputsVars, refs, tv_conf, folded, par, validation, post, misuse, rounds>>

validation_remake(r, from, to) ==
    /\ At(r, from)
    /\ validation' = [validation EXCEPT ![r] = remake(@, par[r])]
    /\ Go(r, to, "validation.remake")
    /\ UNCHANGED <<inputsVars, refs, tv_conf, folded, par, training, post, misuse, rounds>>

post_remake_at(r, from, to) ==
    /\ At(r, from)
    /\ post' = [post EXCEPT ![r] = post_remake(@, validation[r], training[r])]
    /\ Go(r, to, "post.remake")
    /\ UNCHANGED <<inputsVars, refs, tv_conf, folded, par, training, validation, misuse, rounds>>

\* E.post.incVinT(): the validation block held by E.validation is appended
\* to the training block.  Folding a block that is not there, or that was
\* folded before, is a request for a validation block when none remains.
incVinT(r, from, to) ==
    /\ At(r, from)
    /\ training' = [training EXCEPT ![r] =
                      [@ EXCEPT !.inputs = @ \o validation[r].inputs]]
    /\ folded' = [folded EXCEPT ![r] = @ \cup ({validation[r].blk} \ {NoBlk})]
    /\ misuse' = [misuse EXCEPT ![r] =
                      @ \/ validation[r].blk = NoBlk \/ validation[r].blk \in folded[r]]
    /\ Go(r, to, "incVinT")
    /\ UNCHANGED <<inputsVars, refs, tv_conf, par, validation, post, rounds>>

\* E.beliefs.final_beliefs(E, final) and E.post.final_design_points(E, final)
persist(r, from, to, call) ==
    /\ At(r, from)
    /\ Go(r, to, call)
    /\ UNCHANGED <<inputsVars, refs, tv_conf, folded, par, training, validation, post, misuse, rounds>>

L77(r) == llhoptimize_full(r, "L77", "L80")
L80(r) == training_remake(r, "L80", "L81")
L81(r) == validation_remake(r, "L81", "L82")
\* Faulty variant: the posterior is not remade after the optimisation.
L82_noRemake(r) == persist(r, "L82", "L85", "")

L82(r) == post_remake_at(r, "L82", "L85")

\* E.post.mahalanobis_distance(): the value is computed and dropped.
L85(r) ==
    /\ At(r, "L85")
    /\ \E d \in MDOutcomes :
         post' = [post EXCEPT ![r] = [@ EXCEPT !.md = d, !.mdOf = Stamp(par[r], validation[r])]]
    /\ Go(r, "L86", "mahalanobis_distance")
    /\ UNCHANGED <<inputsVars, refs, tv_conf, folded, par, training, validation, misuse, rounds>>

\* E.post.indiv_standard_error(ise=2.0): some validation points are flagged.
L86(r) ==
    /\ At(r, "L86")
    /\ \E f \in SUBSET Range(validation[r].inputs) :
         post' = [post EXCEPT ![r] = [@ EXCEPT !.ise = f, !.iseOf = Stamp(par[r], validation[r])]]
    /\ Go(r, "L89", "indiv_standard_error")
    /\ UNCHANGED <<inputsVars, refs, tv_conf, folded, par, training, validation, misuse, rounds>>

L89(r) == persist(r, "L89", "L90", "final_beliefs(False)")

\* Faulty variant: the design points of a round are not persisted.
L90_skipped(r) == persist(r, "L90", "L93", "")
L90(r) == persist(r, "L90", "L93", "final_design_points(False)")

\* Faulty variant: the promotion is gated on the diagnostics of the round.
L93_gated(r) ==
    /\ At(r, "L93")
    /\ LET go == /\ check_still_training(tv_conf[r], operator[r])
                 /\ post[r].md = "within" /\ post[r].ise = {}
       IN /\ tv_conf' = [tv_conf EXCEPT ![r] = [@ EXCEPT !.retrain = go]]
          /\ Go(r, IF go THEN "L95" ELSE "L75", "check_still_training")
    /\ UNCHANGED <<inputsVars, refs, folded, par, training, validation, post, misuse, rounds>>

\* if E.tv_conf.check_still_training():
L93(r) ==
    /\ At(r, "L93")
    /\ tv_conf' = [tv_conf EXCEPT ![r] =
                     [@ EXCEPT !.retrain = check_still_training(tv_conf[r], operator[r])]]
    /\ Go(r, IF check_still_training(tv_conf[r], operator[r]) THEN "L95" ELSE "L75",
          "check_still_training")
    /\ UNCHANGED <<inputsVars, refs, folded, par, training, validation, post, misuse, rounds>>

L95(r) == incVinT(r, "L95", "L96")

\* Faulty variant: the new validation block is never chosen after the advance.
L96_skipChoose(r) ==
    /\ At(r, "L96")
    /\ tv_conf' = [tv_conf EXCEPT ![r] = next_Vset(@)]
    /\ Go(r, "L98", "next_Vset")
    /\ UNCHANGED <<inputsVars, refs, folded, par, training, validation, post, misuse, rounds>>

\* E.tv_conf.next_Vset()
L96(r) ==
    /\ At(r, "L96")
    /\ tv_conf' = [tv_conf EXCEPT ![r] = next_Vset(@)]
    /\ Go(r, "L97", "next_Vset")
    /\ UNCHANGED <<inputsVars, refs, folded, par, training, validation, post, misuse, rounds>>

\* Faulty variant: the chosen block is not stored in E.validation.
L97_dropResult(r) == persist(r, "L97", "L98", "choose_new_V")

\* E.all_data.choose_new_V(E.validation)
L97(r) ==
    /\ At(r, "L97")
    /\ validation' = [validation EXCEPT ![r] =
                        [@ EXCEPT !.blk = choose_V(tv_conf[r]).blk,
                                  !.inputs = choose_V(tv_conf[r]).inputs]]
    /\ misuse' = [misuse EXCEPT ![r] = @ \/ ~HasCurrentV(tv_conf[r])]
    /\ Go(r, "L98", "choose_new_V")
    /\ UNCHANGED <<inputsVars, refs, tv_conf, folded, par, training, post, rounds>>

L98(r) == training_remake(r, "L98", "L99")
L99(r) == validation_remake(r, "L99", "L100")
\* Faulty variant: the loop body runs once (an "if" for the "while").
L100_noLoop(r) == post_remake_at(r, "L100", "L103")

L100(r) == post_remake_at(r, "L100", "L75")

\* if E.tv_conf.do_final_build():
L103(r) ==
    /\ At(r, "L103")
    /\ Go(r, IF do_final_build(tv_conf[r], operator[r]) THEN "L107" ELSE "done",
          "do_final_build")
    /\ UNCHANGED <<inputsVars, refs, tv_conf, folded, par, training, validation, post, misuse, rounds>>

\* Faulty variant: the final build never folds.
L107_never(r) == persist(r, "L107", "L109", "")

\* Faulty variant: the final build folds whatever noV is.
L107_always(r) == persist(r, "L107", "L108", "")

\* if E.tv_conf.noV != 0:
L107(r) ==
    /\ At(r, "L107")
    /\ Go(r, IF tv_conf[r].noV # 0 THEN "L108" ELSE "L109", "")
    /\ UNCHANGED <<inputsVars, refs, tv_conf, folded, par, training, validation, post, misuse, rounds>>

L108(r) == incVinT(r, "L108", "L109")

\* Faulty variant: training is not remade after the final fold.
L109_noRemake(r) == persist(r, "L109", "L112", "")
L109(r) == training_remake(r, "L109", "L112")
L112(r) == llhoptimize_full(r, "L112", "L113")
\* Faulty variant: training is not remade after the final optimisation.
L113_noRemake(r) == persist(r, "L113", "L116", "")

L113(r) == training_remake(r, "L113", "L116")
L116(r) == persist(r, "L116", "L117", "final_beliefs(True)")
L117(r) == persist(r, "L117", "done", "final_design_points(True)")

----------------------------------------------------------------------------
(* plot(), lines 140-180, called on the Emulator setup() returned, before    *)
(* or after train().                                                         *)

trainVars == <<tv_conf, folded, par, training, validation, post, misuse, rounds>>

\* plot(E, ...) is called; lines 140-173 make the labels and the input grid.
L140(r) ==
    /\ turn = r /\ pc[r] \in {"L72", "done"}
    /\ Go(r, "L174", "plot")
    /\ UNCHANGED <<inputsVars, refs, trainVars>>

\* Faulty variant: the prediction grid gets a kernel of its own.
L174_ownKernel(r) ==
    /\ At(r, "L174")
    /\ refs' = [refs EXCEPT ![r] =
                  [@ EXCEPT !.kernels = @ + 1,
                            !.predict = [par |-> refs[r].par, K |-> refs[r].kernels + 1]]]
    /\ Go(r, "L175", "Data")
    /\ UNCHANGED <<inputsVars, trainVars>>

\* predict = Data(full_xrange, None, E.basis, E.par, E.beliefs, E.K)
L174(r) ==
    /\ At(r, "L174")
    /\ refs' = [refs EXCEPT ![r] = [@ EXCEPT !.predict = [par |-> refs[r].par, K |-> refs[r].K]]]
    /\ Go(r, "L175", "Data")
    /\ UNCHANGED <<inputsVars, trainVars>>

\* post = Posterior(predict, E.training, E.par, E.beliefs, E.K)
L175(r) ==
    /\ At(r, "L175")
    /\ refs' = [refs EXCEPT ![r] = [@ EXCEPT !.plot_post = [par |-> refs[r].par, K |-> refs[r].K]]]
    /\ Go(r, "L178", "Posterior")
    /\ UNCHANGED <<inputsVars, trainVars>>

\* __emup.plotting(dim, post, ...); return None
L178(r) ==
    /\ At(r, "L178")
    /\ Go(r, "plotted", "plotting")
    /\ UNCHANGED <<inputsVars, refs, trainVars>>

----------------------------------------------------------------------------
(* A remake that fails.  Data.remake() and Posterior.remake() raise          *)
(* NonPositiveDefiniteCovariance when the covariance cannot be factorised;   *)
(* train() has no try/except, so the exception leaves train() at once.       *)

RemakeLines == {"L80", "L81", "L82", "L98", "L99", "L100", "L109", "L113"}

RaiseCall(l) ==
    CASE l = "L80" -> "raise@L80" [] l = "L81" -> "raise@L81"
      [] l = "L82" -> "raise@L82" [] l = "L98" -> "raise@L98"
      [] l = "L99" -> "raise@L99" [] l = "L100" -> "raise@L100"
      [] l = "L109" -> "raise@L109" [] l = "L113" -> "raise@L113"

RaiseCalls == {RaiseCall(l) : l \in RemakeLines}

\* The statement that follows each remake.
AfterRemake(l) ==
    CASE l = "L80" -> "L81" [] l = "L81" -> "L82" [] l = "L82" -> "L85"
      [] l = "L98" -> "L99" [] l = "L99" -> "L100" [] l = "L100" -> "L75"
      [] l = "L109" -> "L112" [] l = "L113" -> "L116"

\* Faulty variant: the exception is caught and train() carries on.
RemakeFails_swallowed(r) ==
    /\ \E l \in RemakeLines :
         /\ At(r, l)
         /\ Go(r, AfterRemake(l), RaiseCall(l))
    /\ UNCHANGED <<inputsVars, refs, tv_conf, folded, par, training, validation, post, misuse, rounds>>

RemakeFails(r) ==
    /\ \E l \in RemakeLines :
         /\ At(r, l)
         /\ Go(r, "raised", RaiseCall(l))
    /\ UNCHANGED <<inputsVars, refs, tv_conf, folded, par, training, validation, post, misuse, rounds>>

----------------------------------------------------------------------------

Next ==
    \E r \in Runs :
        \/ L45(r) \/ L46(r) \/ L46_misuse(r) \/ L47(r) \/ L48(r) \/ L49(r)
        \/ L72(r) \/ L75(r) \/ L77(r) \/ L80(r) \/ L81(r) \/ L82(r)
        \/ L85(r) \/ L86(r) \/ L89(r) \/ L90(r) \/ L93(r)
        \/ L95(r) \/ L96(r) \/ L97(r) \/ L98(r) \/ L99(r) \/ L100(r)
        \/ L103(r) \/ L107(r) \/ L108(r) \/ L109(r) \/ L112(r) \/ L113(r)
        \/ L116(r) \/ L117(r)

\* One run of setup() and train().
Spec == Init /\ [][Next]_vars

\* The same, run to completion: the program is sequential and every
\* statement it reaches is executed.
FairSpec == Init /\ [][Next]_vars /\ WF_vars(Next)

\* Two runs on the same inputs, statement by statement in turn.
SpecPair == InitPair /\ [][Next]_vars

\* One run in which any remake of train() may fail.
NextFail == Next \/ \E r \in Runs : RemakeFails(r)

SpecFail == Init /\ [][NextFail]_vars

\* One run of setup(), train() and plot().
NextPlot == Next \/ \E r \in Runs : L140(r) \/ L174(r) \/ L175(r) \/ L178(r)

SpecPlot == Init /\ [][NextPlot]_vars

----------------------------------------------------------------------------
(* The partition as a state machine.                                       *)

Unconsumed(r) == VBlocks(tv_conf[r]) \ folded[r]

PartitionState(r) ==
    IF tv_conf[r].noV = 0 THEN [s |-> "Training-Only", k |-> 0]
    ELSE IF Unconsumed(r) = {} THEN [s |-> "Exhausted", k |-> tv_conf[r].noV]
    ELSE [s |-> "Validating", k |-> tv_conf[r].cur]

Validating(k) == [s |-> "Validating", k |-> k]
Exhausted(n) == [s |-> "Exhausted", k |-> n]

IsPrefix(s, t) == Len(s) <= Len(t) /\ SubSeq(t, 1, Len(s)) = s

NoDuplicates(s) == Cardinality(Range(s)) = Len(s)

InTrain(r) == ~Halted(pc[r]) /\ pc[r] \notin {"L45", "L46", "L47", "L48", "L49"}

----------------------------------------------------------------------------
(* C1.  With noV = 3 in automatic mode the partition goes                  *)
(* Validating(0), Validating(1), Validating(2), Exhausted and nowhere      *)
(* else; every promotion (fold) happens on the current validation block    *)
(* and makes the training block as long as the old training block plus     *)
(* that validation block; train() gets to Exhausted, with three            *)
(* promotions made.                                                        *)

C1_Case(r) == config[r].noV = 3 /\ auto[r]

C1_PromotionStep(r) ==
    folded'[r] # folded[r] =>
        /\ validation[r].blk = tv_conf[r].c + tv_conf[r].cur
        /\ tv_conf[r].cur = Cardinality(folded[r])
        /\ Cardinality(folded'[r]) = Cardinality(folded[r]) + 1
        /\ Len(validation[r].inputs) > 0
        /\ Len(training'[r].inputs)
             = Len(training[r].inputs) + Len(validation[r].inputs)

C1_StateStep(r) ==
    PartitionState(r)' # PartitionState(r) =>
        <<PartitionState(r), PartitionState(r)'>> \in
            {<<Validating(0), Validating(1)>>, <<Validating(1), Validating(2)>>,
             <<Validating(2), Exhausted(3)>>}

C2_PartitionCovers ==
    \A r \in Runs :
        pc[r] \notin {"off", "L45"} =>
            /\ NoDuplicates(training[r].inputs)
            /\ \A b \in Unconsumed(r) :
                 /\ Range(Block(b)) \cap Range(training[r].inputs) = {}
                 /\ \A b2 \in Unconsumed(r) \ {b} :
                      Range(Block(b)) \cap Range(Block(b2)) = {}
            /\ Range(training[r].inputs)
                 \cup UNION {Range(Block(b)) : b \in Unconsumed(r)}
                 = AllPoints(config[r].k)

C2_Witness ==
    /\ ~auto[1] /\ pc[1] = "done"
    /\ folded[1] # {} /\ Unconsumed(1) # {}
    /\ Len(training[1].inputs) < config[1].k * PtsPerSet

(* C3.  Every step of train() leaves the training block with what it had   *)
(* (it is only appended to); a folded block stays folded and stays in      *)
(* training; a block that becomes the current validation block is not a    *)
(* folded one, and no round starts validating against a folded block.      *)

C3_Step(r) ==
    /\ IsPrefix(training[r].inputs, training'[r].inputs)
    /\ folded[r] \subseteq folded'[r]
    /\ \A b \in folded'[r] : Range(Block(b)) \subseteq Range(training'[r].inputs)
    /\ validation'[r].blk # validation[r].blk => validation'[r].blk \notin folded'[r]
    /\ pc'[r] = "L77" => validation'[r].blk \notin folded'[r]

C3_TrainingOnlyGrows == [][\A r \in Runs : InTrain(r) => C3_Step(r)]_vars

C3_Witness ==
    /\ pc[1] = "L77" /\ Cardinality(folded[1]) = 2
    /\ validation[1].blk \notin folded[1]

(* C4.  When a diagnostic is computed (lines 85, 86) the training state,   *)
(* the validation state and the posterior were all remade from the         *)
(* current hyperparameters and the current training and validation blocks. *)

C4_FreshAtDiagnostics ==
    \A r \in Runs :
        pc[r] \in {"L85", "L86"} => FreshT(r) /\ FreshV(r) /\ FreshP(r)

C4_Witness ==
    /\ pc[1] = "L86" /\ rounds[1] = 2 /\ folded[1] # {}
    /\ FreshP(1)

(* C5.  As claimed: at every persistence call, in a validation round       *)
(* (lines 89, 90) and in the final build (lines 116, 117), the training    *)
(* state, the validation state and the posterior are all fresh.            *)

C5_AllFreshAtPersist ==
    \A r \in Runs :
        pc[r] \in {"L89", "L90", "L116", "L117"} =>
            FreshT(r) /\ FreshV(r) /\ FreshP(r)

(* C5, amended.  In a validation round all three are fresh at the          *)
(* persistence calls; in the final build the training state is fresh, and  *)
(* the validation state and the posterior are not: nothing remakes them    *)
(* after the final llhoptimize_full.                                       *)

C5_FreshAtPersist ==
    \A r \in Runs :
        /\ pc[r] \in {"L89", "L90"} => FreshT(r) /\ FreshV(r) /\ FreshP(r)
        /\ pc[r] \in {"L116", "L117"} => FreshT(r) /\ ~FreshV(r) /\ ~FreshP(r)

C5_Witness ==
    /\ pc[1] = "L116" /\ rounds[1] >= 2 /\ folded[1] = VBlocks(tv_conf[1])
    /\ FreshT(1) /\ ~FreshP(1)

(* C6.  In automatic mode train() returns, having started exactly noV      *)
(* validation rounds; with noV = 0 the partition is Training-Only from     *)
(* the start, no round is started and no diagnostic is computed.           *)

Called(r, call) == \E i \in DOMAIN steps[r] : steps[r][i] = call

C6_AutoTerminates ==
    /\ \A r \in Runs : (auto[r] /\ pc[r] = "L72") ~> (pc[r] = "done")
    /\ [](\A r \in Runs :
            (auto[r] /\ InTrain(r)) => rounds[r] <= config[r].noV)
    /\ [](\A r \in Runs :
            (auto[r] /\ pc[r] = "done") => rounds[r] = config[r].noV)
    /\ [](\A r \in Runs :
            (auto[r] /\ config[r].noV = 0 /\ pc[r] # "off") =>
                /\ PartitionState(r).s = "Training-Only"
                /\ rounds[r] = 0
                /\ ~Called(r, "mahalanobis_distance")
                /\ ~Called(r, "indiv_standard_error"))

C6_Witness == auto[1] /\ pc[1] = "done" /\ rounds[1] = 3 /\ config[1].noV = 3

(* C7.  The final build folds (incVinT) exactly when noV # 0.  With        *)
(* noV = 0 the training block is what setup() chose; otherwise the current *)
(* validation block is wholly in the training block when the final         *)
(* optimisation starts.                                                    *)

Acceptable(r) == post[r].md = "within" /\ post[r].ise = {}

C8_GatedPromotion ==
    \A r \in Runs :
        pc[r] \in {"L95", "L96", "L97"} => Acceptable(r) /\ tv_conf[r].auto

(* C8, amended.  The fold and advance of a round are taken only when       *)
(* check_still_training() answered yes: another validation block follows   *)
(* the current one, and promotion is automatic or the operator asked for   *)
(* it.  The diagnostics do not gate it: in automatic mode every round but  *)
(* the last folds and advances, so the loop is left with noV - 1 blocks    *)
(* folded.                                                                 *)

C8_PromotionGuard ==
    \A r \in Runs :
        /\ pc[r] = "L95" =>
             /\ tv_conf[r].cur + 1 < tv_conf[r].noV
             /\ tv_conf[r].auto \/ tv_conf[r].cur < operator[r].retrain
        /\ pc[r] \in {"L96", "L97"} => folded[r] # {}
        /\ (auto[r] /\ pc[r] = "L103" /\ tv_conf[r].noV > 0) =>
             /\ Cardinality(folded[r]) = tv_conf[r].noV - 1
             /\ tv_conf[r].cur = tv_conf[r].noV - 1

C8_Witness ==
    /\ pc[1] = "L95" /\ auto[1]
    /\ post[1].md = "outside" /\ post[1].ise # {}

(* C9.  Two runs on the same partition, auto setting and operator answers  *)
(* make the same calls in the same order whatever diagnostics each of them *)
(* observes, and the flags are computed, from the hyperparameters and the  *)
(* validation block of the round, before final_design_points persists      *)
(* them.                                                                   *)

Min(a, b) == IF a <= b THEN a ELSE b

C9_FlagsDoNotSteer ==
    /\ \A i \in 1..Min(Len(steps[1]), Len(steps[2])) : steps[1][i] = steps[2][i]
    /\ (Halted(pc[1]) /\ Halted(pc[2])) => (steps[1] = steps[2] /\ pc[1] = pc[2])
    /\ \A r \in Runs :
         pc[r] = "L90" => post[r].iseOf = Stamp(par[r], validation[r])

C9_Witness ==
    /\ pc[1] = "done" /\ pc[2] = "done"
    /\ rounds[1] = 2
    /\ post[1].ise = {} /\ post[2].ise # {}
    /\ post[1].md # post[2].md

(* C10.  As claimed: no call that needs the current validation block       *)
(* (choose_V, choose_new_V, incVinT) is made when none remains.            *)

C10_NoPartitionMisuse == \A r \in Runs : ~misuse[r]

(* C11.  When a remake of train() fails, train() is left at once: the      *)
(* failure is the last call of the run, so no persistence call, round,     *)
(* fold or final build follows it.  A failure of the rebuild after the     *)
(* optimisation of a round (lines 80-82) leaves that round without         *)
(* final_beliefs and final_design_points, and a failure in the final build *)
(* (lines 109, 113) leaves it without both.                                *)

Count(r, call) == Cardinality({i \in DOMAIN steps[r] : steps[r][i] = call})

Failed(r) == \E i \in DOMAIN steps[r] : steps[r][i] \in RaiseCalls

LastCall(r) == steps[r][Len(steps[r])]

C11_FailurePropagates ==
    \A r \in Runs :
        Failed(r) =>
            /\ pc[r] = "raised"
            /\ LastCall(r) \in RaiseCalls
            /\ Cardinality({i \in DOMAIN steps[r] : steps[r][i] \in RaiseCalls}) = 1
            /\ LastCall(r) \in {"raise@L80", "raise@L81", "raise@L82"} =>
                 /\ Count(r, "final_beliefs(False)") = rounds[r] - 1
                 /\ Count(r, "final_design_points(False)") = rounds[r] - 1
                 /\ Count(r, "incVinT") = rounds[r] - 1
            /\ LastCall(r) \in {"raise@L80", "raise@L81", "raise@L82",
                                "raise@L98", "raise@L99", "raise@L100"} =>
                 ~Called(r, "do_final_build")
            /\ ~Called(r, "final_beliefs(True)")
            /\ ~Called(r, "final_design_points(True)")

C11_Witness ==
    /\ pc[1] = "raised" /\ LastCall(1) = "raise@L81"
    /\ rounds[1] = 2 /\ Count(1, "final_design_points(False)") = 1
    /\ Unconsumed(1) # {}

(* C12.  The calls of a run come in the order: optimise, remake training,   *)
(* validation and posterior, the two diagnostics, final_beliefs and        *)
(* final_design_points with False, check_still_training, and only then     *)
(* the fold, the advance, the choice of the new block and the three        *)
(* remakes.  Every round persists once, before its fold; the persistence   *)
(* with True happens at most once and after every persistence with False.  *)

\* The order as an automaton over the calls: <<state, call, next state>>.
RoundOrder ==
    {<<"setup", "choose_T", "chosenT">>, <<"chosenT", "choose_V", "built">>,
     <<"built", "auto_train", "loop">>,
     <<"loop", "llhoptimize_full", "optimised">>,
     <<"optimised", "training.remake", "madeT">>,
     <<"madeT", "validation.remake", "madeV">>,
     <<"madeV", "post.remake", "madeP">>,
     <<"madeP", "mahalanobis_distance", "md">>,
     <<"md", "indiv_standard_error", "ise">>,
     <<"ise", "final_beliefs(False)", "beliefs">>,
     <<"beliefs", "final_design_points(False)", "persisted">>,
     <<"persisted", "check_still_training", "checked">>,
     <<"checked", "incVinT", "folded">>,
     <<"folded", "next_Vset", "advanced">>,
     <<"advanced", "choose_new_V", "chosenV">>,
     <<"chosenV", "training.remake", "remadeT">>,
     <<"remadeT", "validation.remake", "remadeV">>,
     <<"remadeV", "post.remake", "loop">>,
     <<"loop", "do_final_build", "final">>,
     <<"checked", "do_final_build", "final">>,
     <<"final", "incVinT", "finalFolded">>,
     <<"final", "training.remake", "finalT">>,
     <<"finalFolded", "training.remake", "finalT">>,
     <<"finalT", "llhoptimize_full", "finalOpt">>,
     <<"finalOpt", "training.remake", "finalMade">>,
     <<"finalMade", "final_beliefs(True)", "finalBeliefs">>,
     <<"finalBeliefs", "final_design_points(True)", "end">>}

RECURSIVE OrderFrom(_, _, _)
OrderFrom(s, i, q) ==
    IF i > Len(s) THEN q
    ELSE LET nx == {t \in RoundOrder : t[1] = q /\ t[2] = s[i]}
         IN IF nx = {} THEN "out of order"
            ELSE OrderFrom(s, i + 1, (CHOOSE t \in nx : TRUE)[3])

C12_RoundOrder ==
    \A r \in Runs :
        /\ OrderFrom(steps[r], 1, "setup") # "out of order"
        /\ Count(r, "final_beliefs(False)") <= rounds[r]
        /\ Count(r, "final_design_points(False)") <= Count(r, "final_beliefs(False)")
        /\ pc[r] \in {"L93", "L95", "L96", "L97", "L98", "L99", "L100", "L75",
                      "L103", "L107", "L108", "L109", "L112", "L113", "L116",
                      "L117", "done"} =>
             /\ Count(r, "final_beliefs(False)") = rounds[r]
             /\ Count(r, "final_design_points(False)") = rounds[r]
        /\ pc[r] = "L95" => Count(r, "incVinT") = rounds[r] - 1
        /\ Count(r, "final_beliefs(True)") <= 1
        /\ Count(r, "final_design_points(True)") <= 1
        /\ \A i, j \in DOMAIN steps[r] :
             (/\ steps[r][i] \in {"final_beliefs(True)", "final_design_points(True)"}
              /\ steps[r][j] \in {"final_beliefs(False)", "final_design_points(False)"})
                => j < i

C12_Witness ==
    /\ pc[1] = "done" /\ rounds[1] = 3
    /\ Count(1, "final_design_points(False)") = 3
    /\ Count(1, "final_design_points(True)") = 1
    /\ Count(1, "incVinT") = 3

(* C14.  llhoptimize_full starts (lines 77, 112) on a training state that  *)
(* was remade from the current training block: a training.remake() lies    *)
(* between every fold and the next optimisation.  A finished run has made  *)
(* one llhoptimize_full call for every validation round, and one more if   *)
(* the final build was done.                                               *)

FinalBuildDone(r) == Called(r, "final_design_points(True)")

\* The calls made since the last fold, the fold included.
RECURSIVE SinceLastFold(_)
SinceLastFold(s) ==
    IF s = <<>> THEN <<>>
    ELSE IF s[Len(s)] = "incVinT" THEN <<"incVinT">>
    ELSE LET before == SinceLastFold(SubSeq(s, 1, Len(s) - 1))
         IN IF before = <<>> THEN <<>> ELSE Append(before, s[Len(s)])

C14_OptimizeOnFreshTraining ==
    \A r \in Runs :
        /\ pc[r] \in {"L77", "L112"} =>
             /\ training[r].made.inputs = training[r].inputs
             /\ Called(r, "incVinT") =>
                  \E i \in DOMAIN SinceLastFold(steps[r]) :
                      SinceLastFold(steps[r])[i] = "training.remake"
        /\ Count(r, "llhoptimize_full") <= rounds[r] + 1
        /\ pc[r] = "done" =>
             Count(r, "llhoptimize_full")
                 = rounds[r] + (IF FinalBuildDone(r) THEN 1 ELSE 0)

C14_Witness ==
    /\ pc[1] = "done" /\ rounds[1] = 2 /\ FinalBuildDone(1)
    /\ Count(1, "llhoptimize_full") = 3
    /\ Count(1, "incVinT") = 2

(* C13.  Through setup(), train() and plot() exactly one Hyperparams       *)
(* instance and one kernel exist, and every object constructed so far      *)
(* (training, validation and prediction-grid Data, both Posteriors, the    *)
(* Optimize object) holds that instance and that kernel.                   *)

Holders(r) ==
    {refs[r].training, refs[r].validation, refs[r].post, refs[r].opt_T,
     refs[r].predict, refs[r].plot_post} \ {NoRefs}

C13_OneParOneKernel ==
    \A r \in Runs :
        /\ refs[r].hypers = 1 /\ refs[r].kernels = 1
        /\ refs[r].par = 1 /\ refs[r].K = 1
        /\ \A h \in Holders(r) : h = [par |-> refs[r].par, K |-> refs[r].K]
        /\ pc[r] \notin {"off", "L45", "L46", "L47", "L48", "L49", "raised"} =>
             /\ refs[r].training # NoRefs /\ refs[r].validation # NoRefs
             /\ refs[r].post # NoRefs /\ refs[r].opt_T # NoRefs
        /\ pc[r] \in {"L178", "plotted"} =>
             refs[r].predict # NoRefs /\ refs[r].plot_post # NoRefs

C13_Witness ==
    /\ pc[1] = "plotted" /\ rounds[1] = 2 /\ par[1] = 3
    /\ refs[1].plot_post = [par |-> 1, K |-> 1]
    /\ refs[1].opt_T = [par |-> 1, K |-> 1]

====
